---- MODULE Spec2Model ----
(***************************************************************************)
(* Structured-JSON recovery of the Cloudflare AI clients                   *)
(*   jobspy/cloudflare_ai/__init__.py            (class CloudflareAI)      *)
(*   jobspy/cloudflare_ai/cloudflare_direct_fixed.py (CloudflareAIDirect)  *)
(* Texts are sequences of one-character strings; Python values are tagged  *)
(* records.                                                                *)
(***************************************************************************)
EXTENDS Integers, Sequences, FiniteSets, TLC

(***************************************************************************)
(* Characters and Python string primitives                                 *)
(***************************************************************************)
WS == {" ", "\n", "\t", "\r"}

Digits == {"0", "1", "2", "3", "4", "5", "6", "7", "8", "9"}

DigitVal(c) ==
  CASE c = "0" -> 0 [] c = "1" -> 1 [] c = "2" -> 2 [] c = "3" -> 3
    [] c = "4" -> 4 [] c = "5" -> 5 [] c = "6" -> 6 [] c = "7" -> 7
    [] c = "8" -> 8 [] c = "9" -> 9

\* s[i:] of Python with 1-based i (the slice from position i to the end)
From(s, i) == IF i > Len(s) THEN << >> ELSE SubSeq(s, i, Len(s))

\* s[i..j], empty when j < i
Slice(s, i, j) == IF j < i THEN << >> ELSE SubSeq(s, i, j)

\* s.startswith(p, i-1): p occurs in s at position i
MatchAt(s, i, p) ==
  /\ i >= 1
  /\ i + Len(p) - 1 <= Len(s)
  /\ \A k \in 1..Len(p) : s[i + k - 1] = p[k]

\* s.endswith(p)
EndsWith(s, p) == Len(p) <= Len(s) /\ MatchAt(s, Len(s) - Len(p) + 1, p)

\* p in s
Contains(s, p) == \E i \in 1..(Len(s) + 1) : MatchAt(s, i, p)

\* s.find(c) + 1 for a one-character c: the first position of c, 0 when absent
Find(s, c) ==
  IF \E i \in 1..Len(s) : s[i] = c
  THEN CHOOSE i \in 1..Len(s) : s[i] = c /\ \A j \in 1..(i - 1) : s[j] # c
  ELSE 0

\* s.rfind(c) + 1: the last position of c, 0 when absent
RFind(s, c) ==
  IF \E i \in 1..Len(s) : s[i] = c
  THEN CHOOSE i \in 1..Len(s) : s[i] = c /\ \A j \in (i + 1)..Len(s) : s[j] # c
  ELSE 0

\* the first position >= i that holds no whitespace (Len(s)+1 when none)
RECURSIVE SkipWS(_, _)
SkipWS(s, i) == IF i <= Len(s) /\ s[i] \in WS THEN SkipWS(s, i + 1) ELSE i

\* the last position <= j that holds no whitespace (0 when none)
RECURSIVE SkipWSBack(_, _)
SkipWSBack(s, j) == IF j >= 1 /\ s[j] \in WS THEN SkipWSBack(s, j - 1) ELSE j

\* s.strip()
Strip(s) == Slice(s, SkipWS(s, 1), SkipWSBack(s, Len(s)))

\* the least element of a non-empty set of positions
Least(S) == CHOOSE x \in S : \A y \in S : x <= y

\* re.sub(p, "", s[i..]) for a literal pattern p: leftmost non-overlapping
\* matches
RECURSIVE RemoveLiteralFrom(_, _, _)
RemoveLiteralFrom(s, p, i) ==
  LET matches == {j \in i..Len(s) : MatchAt(s, j, p)}
      Cut(m) == Slice(s, i, m - 1) \o RemoveLiteralFrom(s, p, m + Len(p))
  IN IF matches = {} THEN From(s, i) ELSE Cut(Least(matches))

RemoveLiteral(s, p) == RemoveLiteralFrom(s, p, 1)

\* s[i..].split(sep) for a one-character sep: the list of pieces
RECURSIVE SplitFrom(_, _, _)
SplitFrom(s, sep, i) ==
  LET seps == {j \in i..Len(s) : s[j] = sep}
      Cut(m) == <<Slice(s, i, m - 1)>> \o SplitFrom(s, sep, m + 1)
  IN IF seps = {} THEN <<From(s, i)>> ELSE Cut(Least(seps))

Split(s, sep) == SplitFrom(s, sep, 1)

\* sep.join(parts) for a one-character sep
RECURSIVE Join(_, _)
Join(parts, sep) ==
  IF Len(parts) = 0 THEN << >>
  ELSE IF Len(parts) = 1 THEN parts[1]
  ELSE parts[1] \o <<sep>> \o Join(Tail(parts), sep)

(***************************************************************************)
(* Python values                                                           *)
(***************************************************************************)
\* Every value carries the same fields, so that any two values can be compared:
\* kind names the Python type, and only the fields of that kind are meaningful
\* (s: the characters of a str; b: a bool; isfloat, n: a number m * 10^e;
\* f: the items of a dict, from key to value; xs: the items of a list).
PyNone ==
  [kind |-> "None", s |-> << >>, b |-> FALSE, isfloat |-> FALSE,
   n |-> [m |-> 0, e |-> 0], f |-> << >>, xs |-> << >>]

PyStr(s) == [PyNone EXCEPT !.kind = "str", !.s = s]

PyBool(b) == [PyNone EXCEPT !.kind = "bool", !.b = b]

PyDict(f) == [PyNone EXCEPT !.kind = "dict", !.f = f]

PyList(xs) == [PyNone EXCEPT !.kind = "list", !.xs = xs]

\* m * 10^e, normalised so that equal numbers are equal records
RECURSIVE Normalise(_, _)
Normalise(m, e) ==
  IF m = 0 THEN [m |-> 0, e |-> 0]
  ELSE IF m % 10 = 0 THEN Normalise(m \div 10, e + 1)
  ELSE [m |-> m, e |-> e]

\* an int or a float; isfloat keeps Python's type, n its value
PyNum(isfloat, m, e) ==
  [PyNone EXCEPT !.kind = "num", !.isfloat = isfloat, !.n = Normalise(m, e)]

\* float("nan"), float("inf"), float("-inf")
PySpecialFloat(name) == [PyNone EXCEPT !.kind = "float", !.s = <<name>>]

EmptyDict == PyDict(<< >>)

\* d[k] = v on a dict's function
DictSet(f, k, v) == [x \in (DOMAIN f) \cup {k} |-> IF x = k THEN v ELSE f[x]]

\* bool(v): Python truthiness, as tested by "if parsed_content:"
Truthy(v) ==
  CASE v.kind = "None" -> FALSE
    [] v.kind = "str" -> Len(v.s) > 0
    [] v.kind = "bool" -> v.b
    [] v.kind = "dict" -> DOMAIN v.f # {}
    [] v.kind = "list" -> Len(v.xs) > 0
    [] v.kind = "num" -> v.n.m # 0
    [] v.kind = "float" -> TRUE

(***************************************************************************)
(* json.loads: the decoder of the standard library, strict mode.  A parse  *)
(* result is [ok, v, i]: success, the value, the position after it.        *)
(* Not ok stands for json.JSONDecodeError.                                 *)
(***************************************************************************)
ParseFail == [ok |-> FALSE, v |-> PyNone, i |-> 0]

ParseOk(v, i) == [ok |-> TRUE, v |-> v, i |-> i]

\* the character a backslash escape stands for ("" for an invalid escape)
Unescape(c) ==
  CASE c = "\"" -> "\""
    [] c = "\\" -> "\\"
    [] c = "/" -> "/"
    [] c = "n" -> "\n"
    [] c = "t" -> "\t"
    [] c = "r" -> "\r"
    [] c = "b" -> "BS"
    [] c = "f" -> "\f"
    [] OTHER -> ""

\* py_scanstring from position j, just after the opening quote: the text up
\* to the next quote, backslash or control character is taken as it is
RECURSIVE ScanString(_, _, _)
ScanString(s, j, acc) ==
  LET stops == {e \in j..Len(s) : s[e] \in {"\"", "\\", "\n", "\t", "\r"}}
      Stop(e, chunk) ==
        IF s[e] = "\"" THEN ParseOk(PyStr(chunk), e + 1)
        ELSE IF s[e] = "\\" THEN
          IF e + 1 > Len(s) \/ Unescape(s[e + 1]) = "" THEN ParseFail
          ELSE ScanString(s, e + 2, Append(chunk, Unescape(s[e + 1])))
        ELSE ParseFail
      First(e) == Stop(e, acc \o Slice(s, j, e - 1))
  IN IF stops = {} THEN ParseFail ELSE First(Least(stops))

\* the position after the run of digits that starts at i
RECURSIVE DigitsEnd(_, _)
DigitsEnd(s, i) == IF i <= Len(s) /\ s[i] \in Digits THEN DigitsEnd(s, i + 1) ELSE i

\* the number written by the digits s[i..j], continuing from acc
RECURSIVE DigitsValue(_, _, _, _)
DigitsValue(s, i, j, acc) ==
  IF i > j THEN acc ELSE DigitsValue(s, i + 1, j, acc * 10 + DigitVal(s[i]))

\* NUMBER_RE = (-?(?:0|[1-9]\d*))(\.\d+)?([eE][-+]?\d+)?
ScanNumber(s, i) ==
  LET neg == i <= Len(s) /\ s[i] = "-"
      p == IF neg THEN i + 1 ELSE i
  IN IF p > Len(s) \/ s[p] \notin Digits THEN ParseFail
     ELSE
       LET ie == IF s[p] = "0" THEN p + 1 ELSE DigitsEnd(s, p)
           hasFrac == ie + 1 <= Len(s) /\ s[ie] = "." /\ s[ie + 1] \in Digits
           fe == IF hasFrac THEN DigitsEnd(s, ie + 1) ELSE ie
           sgn == fe + 1 <= Len(s) /\ s[fe] \in {"e", "E"} /\ s[fe + 1] \in {"+", "-"}
           xs == IF sgn THEN fe + 2 ELSE fe + 1
           hasExp == fe <= Len(s) /\ s[fe] \in {"e", "E"} /\ xs <= Len(s) /\ s[xs] \in Digits
           xe == IF hasExp THEN DigitsEnd(s, xs) ELSE fe
           mant == DigitsValue(s, ie + 1, fe - 1, DigitsValue(s, p, ie - 1, 0))
           expo == IF hasExp
                   THEN (IF sgn /\ s[fe + 1] = "-" THEN -1 ELSE 1) * DigitsValue(s, xs, xe - 1, 0)
                   ELSE 0
           fracLen == IF hasFrac THEN fe - ie - 1 ELSE 0
       IN ParseOk(PyNum(hasFrac \/ hasExp, IF neg THEN -mant ELSE mant, expo - fracLen), xe)

RECURSIVE ScanValue(_, _), ScanMembers(_, _, _), ScanItems(_, _, _)

\* JSONObject after the first key's position j: "key" : value (, "key" : value)* }
ScanMembers(s, j, f) ==
  LET AfterValue(k, v) ==
        LET d == SkipWS(s, v.i)
            g == DictSet(f, k.v.s, v.v)
        IN IF ~v.ok \/ d > Len(s) THEN ParseFail
           ELSE IF s[d] = "}" THEN ParseOk(PyDict(g), d + 1)
           ELSE IF s[d] = "," THEN ScanMembers(s, SkipWS(s, d + 1), g)
           ELSE ParseFail
      AfterKey(k) ==
        LET c == SkipWS(s, k.i) IN
        IF ~k.ok \/ c > Len(s) \/ s[c] # ":" THEN ParseFail
        ELSE AfterValue(k, ScanValue(s, SkipWS(s, c + 1)))
  IN IF j > Len(s) \/ s[j] # "\"" THEN ParseFail
     ELSE AfterKey(ScanString(s, j + 1, << >>))

\* JSONArray after the first item's position j
ScanItems(s, j, acc) ==
  LET AfterValue(v) ==
        LET d == SkipWS(s, v.i) IN
        IF ~v.ok \/ d > Len(s) THEN ParseFail
        ELSE IF s[d] = "]" THEN ParseOk(PyList(Append(acc, v.v)), d + 1)
        ELSE IF s[d] = "," THEN ScanItems(s, SkipWS(s, d + 1), Append(acc, v.v))
        ELSE ParseFail
  IN AfterValue(ScanValue(s, j))

\* scanner.py_make_scanner._scan_once
ScanValue(s, i) ==
  IF i > Len(s) THEN ParseFail
  ELSE IF s[i] = "\"" THEN ScanString(s, i + 1, << >>)
  ELSE IF s[i] = "{" THEN
    LET j == SkipWS(s, i + 1) IN
    IF j <= Len(s) /\ s[j] = "}" THEN ParseOk(EmptyDict, j + 1)
    ELSE ScanMembers(s, j, << >>)
  ELSE IF s[i] = "[" THEN
    LET j == SkipWS(s, i + 1) IN
    IF j <= Len(s) /\ s[j] = "]" THEN ParseOk(PyList(<< >>), j + 1)
    ELSE ScanItems(s, j, << >>)
  ELSE IF MatchAt(s, i, <<"n", "u", "l", "l">>) THEN ParseOk(PyNone, i + 4)
  ELSE IF MatchAt(s, i, <<"t", "r", "u", "e">>) THEN ParseOk(PyBool(TRUE), i + 4)
  ELSE IF MatchAt(s, i, <<"f", "a", "l", "s", "e">>) THEN ParseOk(PyBool(FALSE), i + 5)
  ELSE
    LET Number(r) ==
          IF r.ok THEN r
          ELSE IF MatchAt(s, i, <<"N", "a", "N">>) THEN ParseOk(PySpecialFloat("nan"), i + 3)
          ELSE IF MatchAt(s, i, <<"I", "n", "f", "i", "n", "i", "t", "y">>)
            THEN ParseOk(PySpecialFloat("inf"), i + 8)
          ELSE IF MatchAt(s, i, <<"-", "I", "n", "f", "i", "n", "i", "t", "y">>)
            THEN ParseOk(PySpecialFloat("-inf"), i + 9)
          ELSE ParseFail
    IN Number(ScanNumber(s, i))

\* json.loads(s): one value between optional whitespace, nothing after it
json_loads(s) ==
  LET Whole(r) == IF r.ok /\ SkipWS(s, r.i) = Len(s) + 1 THEN r ELSE ParseFail
  IN Whole(ScanValue(s, SkipWS(s, 1)))

(***************************************************************************)
(* Markdown stripping                                                      *)
(***************************************************************************)
\* the backtick character, and the markdown fence of three backticks
Backtick == "BACKTICK"

Fence == <<Backtick, Backtick, Backtick>>

\* CloudflareAI.strip_code_block_tildes: the four patterns removed in turn,
\* then str.strip()
strip_code_block_tildes(response_text) ==
  LET t1 == RemoveLiteral(response_text, Fence \o <<"j", "s", "o", "n", "\n">>)
      t2 == RemoveLiteral(t1, Fence \o <<"m", "a", "r", "k", "d", "o", "w", "n", "\n">>)
      t3 == RemoveLiteral(t2, Fence \o <<"\n">>)
      t4 == RemoveLiteral(t3, Fence)
  IN Strip(t4)

\* str.lower() on one character
Lower(c) ==
  CASE c = "A" -> "a" [] c = "B" -> "b" [] c = "C" -> "c" [] c = "D" -> "d"
    [] c = "E" -> "e" [] c = "F" -> "f" [] c = "G" -> "g" [] c = "H" -> "h"
    [] c = "I" -> "i" [] c = "J" -> "j" [] c = "K" -> "k" [] c = "L" -> "l"
    [] c = "M" -> "m" [] c = "N" -> "n" [] c = "O" -> "o" [] c = "P" -> "p"
    [] c = "Q" -> "q" [] c = "R" -> "r" [] c = "S" -> "s" [] c = "T" -> "t"
    [] c = "U" -> "u" [] c = "V" -> "v" [] c = "W" -> "w" [] c = "X" -> "x"
    [] c = "Y" -> "y" [] c = "Z" -> "z" [] OTHER -> c

LowerText(s) == [i \in 1..Len(s) |-> Lower(s[i])]

\* The position after a match of  FENCE(\s*)?word(\s*)?  at i (re.IGNORECASE on
\* the word), 0 when there is none.  ws1, ws2 say whether each \s* is in the
\* pattern; word may be empty.
FenceMatchEnd(s, i, ws1, word, ws2) ==
  IF ~MatchAt(s, i, Fence) THEN 0
  ELSE
    LET a == IF ws1 THEN SkipWS(s, i + 3) ELSE i + 3 IN
    IF ~MatchAt(LowerText(s), a, word) THEN 0
    ELSE IF ws2 THEN SkipWS(s, a + Len(word)) ELSE a + Len(word)

\* re.sub(pattern, '', s[i..]) for the fence patterns
RECURSIVE RemoveFenceFrom(_, _, _, _, _)
RemoveFenceFrom(s, i, ws1, word, ws2) ==
  LET matches == {j \in i..Len(s) : FenceMatchEnd(s, j, ws1, word, ws2) # 0}
      Cut(m) == Slice(s, i, m - 1)
                \o RemoveFenceFrom(s, FenceMatchEnd(s, m, ws1, word, ws2), ws1, word, ws2)
  IN IF matches = {} THEN From(s, i) ELSE Cut(Least(matches))

\* re.sub(r'FENCE$', '', s[i..]): a fence at the end, or before a final newline
RECURSIVE RemoveEndFenceFrom(_, _)
RemoveEndFenceFrom(s, i) ==
  LET matches == {j \in i..Len(s) :
                    /\ MatchAt(s, j, Fence)
                    /\ (j + 3 = Len(s) + 1 \/ (j + 3 = Len(s) /\ s[Len(s)] = "\n"))}
      Cut(m) == Slice(s, i, m - 1) \o RemoveEndFenceFrom(s, m + 3)
  IN IF matches = {} THEN From(s, i) ELSE Cut(Least(matches))

\* CloudflareAIDirect.strip_all_markdown_formatting
strip_all_markdown_formatting(text) ==
  LET Json == <<"j", "s", "o", "n">>
      Unfenced(t) ==
        Strip(RemoveLiteral(
          RemoveEndFenceFrom(
            RemoveFenceFrom(
              RemoveFenceFrom(
                RemoveFenceFrom(t, 1, FALSE, Json, TRUE),
                1, TRUE, Json, TRUE),
              1, FALSE, << >>, TRUE),
            1),
          Fence))
  IN IF Contains(LowerText(text), Json) /\ Find(text, "{") > 1
     THEN Unfenced(From(text, Find(text, "{"))) ELSE Unfenced(text)

(***************************************************************************)
(* Textual repair                                                          *)
(***************************************************************************)
NA == <<"n", "/", "a">>

\* The loop of _attempt_json_completion over lines[k..]: the kept lines
RECURSIVE CompletedLines(_, _, _)
CompletedLines(lines, k, completed_lines) ==
  IF k > Len(lines) THEN completed_lines
  ELSE
    LET line == lines[k]
        stripped == Strip(line)
        isField == Contains(stripped, <<"\"">>) /\ Contains(stripped, <<":">>)
    IN IF stripped = << >> THEN CompletedLines(lines, k + 1, completed_lines)
       ELSE IF \/ EndsWith(stripped, <<",">>)
               \/ EndsWith(stripped, <<"{">>)
               \/ (isField /\ (EndsWith(stripped, <<"\"">>) \/ EndsWith(stripped, <<"\"", ",">>)))
         THEN CompletedLines(lines, k + 1, Append(completed_lines, line))
       ELSE IF isField
         THEN LET field_name == Strip(Split(stripped, ":")[1])
              IN Append(completed_lines,
                        <<" ", " ">> \o field_name \o <<":", " ", "\"">> \o NA \o <<"\"">>)
       ELSE completed_lines

\* CloudflareAI._attempt_json_completion (the schema argument is not read)
attempt_json_completion(incomplete_json, schema) ==
  LET lines == Split(incomplete_json, "\n")
      joined == Join(CompletedLines(lines, 1, << >>), "\n")
      result == IF EndsWith(Strip(joined), <<",">>)
                THEN Slice(joined, 1, RFind(joined, ",") - 1)
                ELSE joined
  IN IF EndsWith(Strip(joined), <<"}">>) THEN joined ELSE result \o <<"\n", "}">>

\* re.sub(r',(\s*})', r'\1', s[i..])
RECURSIVE RemoveTrailingCommasFrom(_, _)
RemoveTrailingCommasFrom(s, i) ==
  LET Brace(j) == SkipWS(s, j + 1)
      matches == {j \in i..Len(s) : s[j] = "," /\ Brace(j) <= Len(s) /\ s[Brace(j)] = "}"}
      Cut(m) == Slice(s, i, m - 1) \o Slice(s, m + 1, Brace(m))
                \o RemoveTrailingCommasFrom(s, Brace(m) + 1)
  IN IF matches = {} THEN From(s, i) ELSE Cut(Least(matches))

\* re.sub(r'(?<!\\)\\n', '\\\\n', s[i..]): a backslash followed by n and not
\* preceded by a backslash is replaced by the template \\n, which re expands
\* to a backslash followed by n
RECURSIVE EscapeNewlinesFrom(_, _)
EscapeNewlinesFrom(s, i) ==
  LET matches == {j \in i..Len(s) :
                    MatchAt(s, j, <<"\\", "n">>) /\ (j = 1 \/ s[j - 1] # "\\")}
      Cut(m) == Slice(s, i, m - 1) \o <<"\\", "n">> \o EscapeNewlinesFrom(s, m + 2)
  IN IF matches = {} THEN From(s, i) ELSE Cut(Least(matches))

\* The lazy group [^",}]*? followed by (\s*[,}]), tried from position p: the
\* first position at which \s*[,}] matches with only characters of the class
\* before it, 0 when there is none
LazyValueEnd(s, p) ==
  LET Ends(q) == SkipWS(s, q) <= Len(s) /\ s[SkipWS(s, q)] \in {",", "}"}
      ends == {q \in p..Len(s) :
                 Ends(q) /\ \A k \in p..(q - 1) : s[k] \notin {"\"", ",", "}"}}
  IN IF ends = {} THEN 0 ELSE Least(ends)

\* The end of the group ([^",{\[\s<no>][^",}]*?) of a match of the quoting
\* pattern at the colon at j, 0 when the pattern does not match there
QuoteMatch(s, j, no) ==
  LET Value(a) ==
        IF a <= Len(s) /\ s[a] \notin ({"\"", ",", "{", "["} \cup WS \cup no)
        THEN LazyValueEnd(s, a + 1) ELSE 0
  IN IF s[j] = ":" THEN Value(SkipWS(s, j + 1)) ELSE 0

\* re.sub(r':\s*([^",{\[\s<no>][^",}]*?)(\s*[,}])', r': "\1"\2', s[i..]), where
\* <no> is empty (CloudflareAI) or \d- (CloudflareAIDirect)
RECURSIVE QuoteValuesFrom(_, _, _)
QuoteValuesFrom(s, i, no) ==
  LET matches == {j \in i..Len(s) : QuoteMatch(s, j, no) # 0}
      Quoted(m, a, p, t) ==
        Slice(s, i, m - 1) \o <<":", " ", "\"">> \o Slice(s, a, p - 1) \o <<"\"">>
        \o Slice(s, p, t) \o QuoteValuesFrom(s, t + 1, no)
      Cut(m) == Quoted(m, SkipWS(s, m + 1), QuoteMatch(s, m, no),
                       SkipWS(s, QuoteMatch(s, m, no)))
  IN IF matches = {} THEN From(s, i) ELSE Cut(Least(matches))

\* CloudflareAI._fix_common_json_issues
fix_common_json_issues(json_text) ==
  QuoteValuesFrom(EscapeNewlinesFrom(RemoveTrailingCommasFrom(json_text, 1), 1), 1, {})

\* CloudflareAIDirect._fix_common_json_issues
direct_fix_common_json_issues(json_text) ==
  QuoteValuesFrom(EscapeNewlinesFrom(RemoveTrailingCommasFrom(json_text, 1), 1), 1,
                  Digits \cup {"-"})

(***************************************************************************)
(* Schemas and numeric coercion                                            *)
(***************************************************************************)
\* A schema: whether it has a "properties" key, and the declared type of each
\* property (the only part of a property the clients read)
MkSchema(props) == [hasProps |-> TRUE, props |-> props]

NoPropsSchema == [hasProps |-> FALSE, props |-> << >>]

\* schema.get("properties", {}).keys()
SchemaKeys(schema) == IF schema.hasProps THEN DOMAIN schema.props ELSE {}

\* digitpart of the float grammar from position i: digit (["_"] digit)*.
\* [e: the position after it (i when there is none), v: its value continuing
\* from acc, n: its number of digits]
RECURSIVE ScanDigitPart(_, _, _, _)
ScanDigitPart(s, i, acc, n) ==
  IF i <= Len(s) /\ s[i] \in Digits
    THEN ScanDigitPart(s, i + 1, acc * 10 + DigitVal(s[i]), n + 1)
  ELSE IF n > 0 /\ i + 1 <= Len(s) /\ s[i] = "_" /\ s[i + 1] \in Digits
    THEN ScanDigitPart(s, i + 1, acc, n)
  ELSE [e |-> i, v |-> acc, n |-> n]

\* float(s) on a str: [ok, v]; not ok stands for ValueError
PyFloat(s) ==
  LET Bad == [ok |-> FALSE, v |-> PyNone]
      None(i, v) == [e |-> i, v |-> v, n |-> 0]
      Exponent(r, neg, ip, fp) ==
        LET hasE == fp.e <= Len(r) /\ r[fp.e] \in {"e", "E"}
            esgn == hasE /\ fp.e + 1 <= Len(r) /\ r[fp.e + 1] \in {"+", "-"}
            Value(xp) ==
              IF /\ ip.n + fp.n > 0
                 /\ (hasE => xp.n > 0)
                 /\ xp.e = Len(r) + 1
              THEN [ok |-> TRUE,
                    v |-> PyNum(TRUE, IF neg THEN -fp.v ELSE fp.v,
                                (IF esgn /\ r[fp.e + 1] = "-" THEN -xp.v ELSE xp.v) - fp.n)]
              ELSE Bad
        IN Value(IF hasE THEN ScanDigitPart(r, IF esgn THEN fp.e + 2 ELSE fp.e + 1, 0, 0)
                 ELSE None(fp.e, 0))
      Fraction(r, neg, ip) ==
        Exponent(r, neg, ip,
                 IF ip.e <= Len(r) /\ r[ip.e] = "."
                 THEN ScanDigitPart(r, ip.e + 1, ip.v, 0) ELSE None(ip.e, ip.v))
      Unsigned(r, neg, low) ==
        IF low \in {<<"i", "n", "f">>, <<"i", "n", "f", "i", "n", "i", "t", "y">>}
          THEN [ok |-> TRUE, v |-> PySpecialFloat(IF neg THEN "-inf" ELSE "inf")]
        ELSE IF low = <<"n", "a", "n">> THEN [ok |-> TRUE, v |-> PySpecialFloat("nan")]
        ELSE Fraction(r, neg, ScanDigitPart(r, 1, 0, 0))
      Signed(t, signed) ==
        Unsigned(IF signed THEN Tail(t) ELSE t, signed /\ t[1] = "-",
                 LowerText(IF signed THEN Tail(t) ELSE t))
      Stripped(t) == Signed(t, Len(t) >= 1 /\ t[1] \in {"+", "-"})
  IN Stripped(Strip(s))

\* value.replace('$', '') alone: the commas stay
StripMoney_keeps_commas(s) == RemoveLiteral(s, <<"$">>)

\* value.replace(',', '').replace('$', '')
StripMoney(s) == RemoveLiteral(RemoveLiteral(s, <<",">>), <<"$">>)

\* What a call returns or raises: [raised, v, stages].  raised stands for an
\* exception leaving the call (AttributeError, TypeError), v is the value
\* returned, stages the parse stages the call went through.
Returns(v, stages) == [raised |-> FALSE, v |-> v, stages |-> stages]

Raises(stages) == [raised |-> TRUE, v |-> PyNone, stages |-> stages]

\* float(...) of every str value, whatever type the schema declares for it
FixedNumber_of_any_type(key, value, schema) ==
  LET Converted(r) == IF r.ok THEN r.v ELSE value
  IN IF value.kind = "str" THEN Converted(PyFloat(StripMoney(value.s))) ELSE value

\* One field of _fix_numeric_values: float(...) or, on ValueError, the value
FixedNumber(key, value, schema) ==
  LET Converted(r) == IF r.ok THEN r.v ELSE value
  IN IF /\ key \in DOMAIN schema.props
        /\ schema.props[key] = <<"n", "u", "m", "b", "e", "r">>
        /\ value.kind = "str"
     THEN Converted(PyFloat(StripMoney(value.s)))
     ELSE value

\* CloudflareAIDirect._fix_numeric_values: data.items() raises AttributeError
\* on anything that is not a dict
fix_numeric_values(data, schema, stages) ==
  IF ~schema.hasProps THEN Returns(data, stages)
  ELSE IF data.kind # "dict" THEN Raises(stages)
  ELSE Returns(PyDict([k \in DOMAIN data.f |-> FixedNumber(k, data.f[k], schema)]), stages)

(***************************************************************************)
(* _extract_and_fix_json                                                   *)
(***************************************************************************)
\* try: return json.loads(...) except json.JSONDecodeError: the next stage
TryLoads(r, stages, otherwise) == IF r.ok THEN Returns(r.v, stages) ELSE otherwise

\* CloudflareAI._extract_and_fix_json
extract_and_fix_json(text, schema) ==
  LET Boundary(json_start, json_end) ==
        LET how == IF json_end = 0 THEN "completion" ELSE "boundary"
            Repair(json_text) ==
              TryLoads(json_loads(json_text), <<"direct", how>>,
                TryLoads(json_loads(fix_common_json_issues(json_text)),
                         <<"direct", how, "repair">>,
                         Returns(PyNone, <<"direct", how, "repair">>)))
        IN IF json_start = 0 THEN Returns(PyNone, <<"direct">>)
           ELSE Repair(IF json_end = 0
                       THEN attempt_json_completion(From(text, json_start), schema)
                       ELSE Slice(text, json_start, json_end))
  IN TryLoads(json_loads(text), <<"direct">>, Boundary(Find(text, "{"), RFind(text, "}")))

\* try: return self._fix_numeric_values(json.loads(...), schema) except
\* json.JSONDecodeError: the next stage
TryLoadsFixed(r, schema, stages, otherwise) ==
  IF r.ok THEN fix_numeric_values(r.v, schema, stages) ELSE otherwise

\* CloudflareAIDirect._extract_and_fix_json
direct_extract_and_fix_json(raw_text, schema) ==
  LET Stripped(text) ==
        LET Boundary(json_start, json_end) ==
              LET Repair(json_text) ==
                    TryLoadsFixed(json_loads(json_text), schema, <<"direct", "boundary">>,
                      TryLoadsFixed(json_loads(direct_fix_common_json_issues(json_text)), schema,
                                    <<"direct", "boundary", "repair">>,
                                    Returns(PyNone, <<"direct", "boundary", "repair">>)))
              IN IF json_start = 0 \/ json_end = 0 THEN Returns(PyNone, <<"direct">>)
                 ELSE Repair(Slice(text, json_start, json_end))
        IN TryLoadsFixed(json_loads(text), schema, <<"direct">>,
                         Boundary(Find(text, "{"), RFind(text, "}")))
  IN Stripped(strip_all_markdown_formatting(raw_text))

(***************************************************************************)
(* Regeneration: generate_text and the parse of the regenerated text       *)
(***************************************************************************)
\* retries = 3 of _fallback_structured_response
Retries == 3

\* generate_text as the fallback loop sees it.  resp is what the endpoint
\* does: "failed" (request error or no choices: None is returned), "text"
\* (the completion, returned through strip_code_block_tildes), or "raise" (the
\* call raises, which the loop's try/except is written for).
generate_text(resp) ==
  IF resp.k = "text" THEN Returns(PyStr(strip_code_block_tildes(resp.s)), << >>)
  ELSE IF resp.k = "failed" THEN Returns(PyNone, << >>)
  ELSE Raises(<< >>)

\* the fill with the test "if key in structured_result" left out: every
\* parsed item is copied
FillFromSchema_keeps_unknown_keys(parsed_response, schema, stages) ==
  IF parsed_response.kind # "dict" THEN Raises(stages)
  ELSE Returns(PyDict([key \in SchemaKeys(schema) \cup DOMAIN parsed_response.f |->
                         IF key \in DOMAIN parsed_response.f
                         THEN parsed_response.f[key] ELSE PyStr(NA)]), stages)

\* {key: "n/a" for key in properties}, then overwritten by the parsed items
\* whose key the schema declares; parsed_response.items() raises
\* AttributeError on anything that is not a dict
FillFromSchema(parsed_response, schema, stages) ==
  IF parsed_response.kind # "dict" THEN Raises(stages)
  ELSE Returns(PyDict([key \in SchemaKeys(schema) |->
                         IF key \in DOMAIN parsed_response.f
                         THEN parsed_response.f[key] ELSE PyStr(NA)]), stages)

\* re.search(r'^\s*({.*})\s*$', s, re.DOTALL).group(1): [ok, s]
OutermostObject(s) ==
  LET a == SkipWS(s, 1)
      b == SkipWSBack(s, Len(s))
  IN IF a < b /\ s[a] = "{" /\ s[b] = "}"
     THEN [ok |-> TRUE, s |-> Slice(s, a, b)] ELSE [ok |-> FALSE, s |-> << >>]

\* what the fallback returns or raises, with the parsed_response it came from
WithParsed(r, parsed_response) ==
  [raised |-> r.raised, v |-> r.v, stages |-> r.stages, parsed |-> parsed_response]

\* schema-completion of a parsed response; a falsy one gives None
FilledOrNone(parsed_response, schema, stages) ==
  WithParsed(IF ~Truthy(parsed_response) THEN Returns(PyNone, stages)
             ELSE FillFromSchema(parsed_response, schema, stages),
             parsed_response)

\* CloudflareAI._fallback_structured_response after the retry loop, for a
\* non-empty raw_response
fallback_parse(raw_response, schema) ==
  LET Cleaned(cleaned_response) ==
        LET Matched(direct, json_match) ==
              LET Extracted(r) ==
                    FilledOrNone(IF r.ok THEN r.v ELSE PyNone, schema, <<"direct", "regex">>)
              IN IF direct.ok THEN FilledOrNone(direct.v, schema, <<"direct">>)
                 ELSE IF json_match.ok THEN Extracted(json_loads(json_match.s))
                 ELSE FilledOrNone(PyNone, schema, <<"direct">>)
        IN Matched(json_loads(cleaned_response), OutermostObject(cleaned_response))
  IN Cleaned(strip_code_block_tildes(raw_response))

\* CloudflareAIDirect._fallback_structured_response after the retry loop
direct_fallback_parse(raw_response, schema) ==
  LET Parsed(parsed_response) ==
        IF parsed_response.raised THEN WithParsed(parsed_response, PyNone)
        ELSE FilledOrNone(parsed_response.v, schema, parsed_response.stages)
  IN Parsed(direct_extract_and_fix_json(strip_all_markdown_formatting(raw_response), schema))

(***************************************************************************)
(* structured_response up to its return or its first regeneration request  *)
(***************************************************************************)
Clients == {"CloudflareAI", "CloudflareAIDirect"}

NotRun == Returns(PyNone, << >>)

\* structured_response with one of its branches changed:
\*   "no_dict_check"  the isinstance(content, dict) return is missing
\*   "no_fallback"    a completion that parses to nothing returns None
\*   "no_choices"     a result without choices returns None
primary_changed(cl, resp, schema, change) ==
  LET Fallback(inTry, parsed) == [ret |-> FALSE, v |-> PyNone, inTry |-> inTry, parsed |-> parsed]
      Return(v, parsed) == [ret |-> TRUE, v |-> v, inTry |-> TRUE, parsed |-> parsed]
      content == resp.c
      Parsed(parsed_content) ==
        IF parsed_content.raised THEN Fallback(FALSE, parsed_content)
        ELSE IF Truthy(parsed_content.v) THEN Return(parsed_content.v, parsed_content)
        ELSE IF change = "no_fallback" THEN Return(PyNone, parsed_content)
        ELSE Fallback(TRUE, parsed_content)
  IN IF resp.k = "error" THEN Fallback(FALSE, NotRun)
     ELSE IF resp.k = "nochoices"
       THEN IF change = "no_choices" THEN Return(PyNone, NotRun) ELSE Fallback(TRUE, NotRun)
     ELSE IF content.kind = "dict" /\ change # "no_dict_check" THEN Return(content, NotRun)
     ELSE IF content.kind # "str" THEN Fallback(FALSE, NotRun)
     ELSE IF cl = "CloudflareAI"
       THEN Parsed(extract_and_fix_json(strip_code_block_tildes(content.s), schema))
     ELSE Parsed(direct_extract_and_fix_json(strip_all_markdown_formatting(content.s), schema))

structured_primary_no_dict_check(cl, resp, schema) ==
  primary_changed(cl, resp, schema, "no_dict_check")

structured_primary_no_fallback(cl, resp, schema) ==
  primary_changed(cl, resp, schema, "no_fallback")

structured_primary_no_choices(cl, resp, schema) ==
  primary_changed(cl, resp, schema, "no_choices")

\* The body of structured_response once the POST has answered.  resp is
\* "error" (requests raises RequestException), "nochoices" (no choices in the
\* result) or "content" with the completion content c.
\* [ret: whether it returns without the fallback, v: the value returned,
\*  inTry: whether the fallback is called inside the try block (lines 211/218,
\*  242/247) rather than from an except handler, parsed: what
\*  _extract_and_fix_json did]
structured_primary(cl, resp, schema) ==
  LET Fallback(inTry, parsed) == [ret |-> FALSE, v |-> PyNone, inTry |-> inTry, parsed |-> parsed]
      content == resp.c
      Parsed(parsed_content) ==
        IF parsed_content.raised THEN Fallback(FALSE, parsed_content)
        ELSE IF Truthy(parsed_content.v)
          THEN [ret |-> TRUE, v |-> parsed_content.v, inTry |-> TRUE, parsed |-> parsed_content]
        ELSE Fallback(TRUE, parsed_content)
  IN IF resp.k = "error" THEN Fallback(FALSE, NotRun)
     ELSE IF resp.k = "nochoices" THEN Fallback(TRUE, NotRun)
     ELSE IF content.kind = "dict"
       THEN [ret |-> TRUE, v |-> content, inTry |-> TRUE, parsed |-> NotRun]
     \* re.sub / str.lower on a content that is no str: TypeError, AttributeError
     ELSE IF content.kind # "str" THEN Fallback(FALSE, NotRun)
     ELSE IF cl = "CloudflareAI"
       THEN Parsed(extract_and_fix_json(strip_code_block_tildes(content.s), schema))
     ELSE Parsed(direct_extract_and_fix_json(strip_all_markdown_formatting(content.s), schema))

\* for i in range(retries): whether another attempt follows attempt i
NextAttempt(i) == i + 1 < Retries

(***************************************************************************)
(* Inputs: schemas, completions and regeneration responses                 *)
(***************************************************************************)
Q(s) == <<"\"">> \o s \o <<"\"">>

Field(k, v) == Q(k) \o <<":", " ">> \o Q(v)

JobTitle == <<"j", "o", "b", "_", "t", "i", "t", "l", "e">>

SalaryMin == <<"s", "a", "l", "a", "r", "y", "_", "m", "i", "n">>

Engineer == <<"E", "n", "g", "i", "n", "e", "e", "r">>

Salary == <<"$", "1", "0", "0", ",", "0", "0", "0">>

TString == <<"s", "t", "r", "i", "n", "g">>

TNumber == <<"n", "u", "m", "b", "e", "r">>

\* {"properties": {"job_title": {"type": "string"}, "salary_min": {"type": "number"}}}
JobSchema == MkSchema((JobTitle :> TString) @@ (SalaryMin :> TNumber))

Schemas == {JobSchema, NoPropsSchema}

\* {"job_title": "Engineer", "salary_min": "$100,000"   (no closing brace)
ScenarioText ==
  <<"{">> \o Field(JobTitle, Engineer) \o <<",", " ">> \o Field(SalaryMin, Salary)

\* {"job_title": "Engineer"}
PartialObjectText == <<"{">> \o Field(JobTitle, Engineer) \o <<"}">>

\* the fenced object: FENCE json newline {"job_title": "Engineer"} newline FENCE
FencedText ==
  Fence \o <<"j", "s", "o", "n", "\n">> \o PartialObjectText \o <<"\n">> \o Fence

ListText == <<"[", "1", "]">>

\* a completion content that is already a mapping
DictContent == PyDict(JobTitle :> PyStr(Engineer))

Contents ==
  { PyNone, PyStr(<< >>), DictContent,
    PyStr(ScenarioText \o <<"}">>), PyStr(ScenarioText), PyStr(PartialObjectText),
    PyStr(FencedText), PyStr(ListText), PyStr(<<"5">>), PyStr(<<"n", "u", "l", "l">>),
    PyStr(<<"{", "}">>), PyStr(<<"n", "o">>),
    PyStr(<<"{">> \o Field(JobTitle, Engineer) \o <<",", "}">>) }

Responses ==
  {[k |-> "error", c |-> PyNone], [k |-> "nochoices", c |-> PyNone]}
  \cup {[k |-> "content", c |-> c] : c \in Contents}

\* an object after prose:  a {"job_title": "Dev"}
ProseText == <<"a", " ", "{">> \o Field(JobTitle, <<"D", "e", "v">>) \o <<"}">>

\* an object with a trailing comma:  {"job_title": "Dev",}
TrailingCommaText == <<"{">> \o Field(JobTitle, <<"D", "e", "v">>) \o <<",", "}">>

\* what the endpoint answers to a regeneration request
GenResponses ==
  { [k |-> "raise", s |-> << >>], [k |-> "failed", s |-> << >>],
    [k |-> "text", s |-> Fence],
    [k |-> "text", s |-> ListText],
    [k |-> "text", s |-> <<"{">> \o Field(JobTitle, <<"D", "e", "v">>) \o <<",", " ">>
                          \o Field(<<"z">>, <<"9">>) \o <<"}">>],
    [k |-> "text", s |-> <<"{", "}">>],
    [k |-> "text", s |-> ProseText],
    [k |-> "text", s |-> TrailingCommaText] }

(***************************************************************************)
(* Texts given to _extract_and_fix_json directly, as the tests do          *)
(***************************************************************************)
\* the complete fields before the truncated one are at most this many
MaxComplete == 2

\* the length of the truncated value is at most this
MaxPartialLen == 2

\* the fields of an object with a trailing comma are at most this many
MaxFields == 2

\* the length of a value of such an object is at most this
MaxValueLen == 3

\* the sequences over S of length lo..hi
SeqsOf(S, lo, hi) == UNION {[1..n -> S] : n \in lo..hi}

\* the key of the n-th field: f1, f2, ...
KeyOf(n) == <<"f", CHOOSE c \in Digits : DigitVal(c) = n>>

NoInput == [family |-> "none", values |-> << >>, partial |-> << >>, ws |-> << >>]

\* an opening brace, complete  "key": "value",  lines and a final line
\* "key": "partial  cut before its closing quote; no closing brace anywhere
TruncatedInputs ==
  {[family |-> "truncated", values |-> vs, partial |-> p, ws |-> << >>] :
     vs \in SeqsOf({<<"x">>, <<"1">>}, 1, MaxComplete),
     p \in SeqsOf({"p", ",", " "}, 1, MaxPartialLen)}

\* an object of quoted strings with a comma, then ws, before the closing brace
CommaInputs ==
  {[family |-> "comma", values |-> vs, partial |-> << >>, ws |-> w] :
     vs \in SeqsOf(SeqsOf({"x", ":", ","}, 1, MaxValueLen), 1, MaxFields),
     w \in {<< >>, <<" ">>, <<"\n">>}}

\* a valid object of quoted strings, one of them at least with a raw newline
NewlineInputs ==
  {[family |-> "newline", values |-> vs, partial |-> << >>, ws |-> << >>] :
     vs \in {v \in SeqsOf(SeqsOf({"x", "\n"}, 1, MaxValueLen), 1, MaxFields) :
               \E n \in 1..Len(v) : Contains(v[n], <<"\n">>)}}

\* $1,234.50
Money == <<"$", "1", ",", "2", "3", "4", ".", "5", "0">>

Competitive == <<"c", "o", "m", "p", "e", "t", "i", "t", "i", "v", "e">>

\* {"job_title": "1", "salary_min": "<v>"}: the value of the field that
\* JobSchema declares a number is written with money characters
NumericInputs ==
  {[family |-> "numeric", values |-> <<<<"1">>, v>>, partial |-> << >>, ws |-> << >>] :
     v \in SeqsOf({"$", ",", "1", "0", ".", "c"}, 0, MaxValueLen) \cup {Money, Competitive}}

\* {"f1": {"salary_min": "1"}, "salary_min": "1"}: the field that JobSchema
\* declares a number, at the top level and inside a nested object
NestedText ==
  <<"{">> \o Q(KeyOf(1)) \o <<":", " ", "{">> \o Field(SalaryMin, <<"1">>)
  \o <<"}", ",", " ">> \o Field(SalaryMin, <<"1">>) \o <<"}">>

\* texts that are valid JSON as they are:
\* {"f1": "x"}   {"f1": 1}   [{"f1": "json"}]   {"f1": "FENCEjson"}
\* {"salary_min": 5, "f1": "1"}   {"salary_min": "c", "job_title": "2"}
\* and NestedText
ValidTexts ==
  { <<"{">> \o Field(KeyOf(1), <<"x">>) \o <<"}">>,
    <<"{">> \o Q(KeyOf(1)) \o <<":", " ", "1", "}">>,
    <<"[", "{">> \o Field(KeyOf(1), <<"j", "s", "o", "n">>) \o <<"}", "]">>,
    <<"{">> \o Field(KeyOf(1), Fence \o <<"j", "s", "o", "n">>) \o <<"}">>,
    <<"{">> \o Q(SalaryMin) \o <<":", " ", "5", ",", " ">> \o Field(KeyOf(1), <<"1">>)
    \o <<"}">>,
    <<"{">> \o Field(SalaryMin, <<"c">>) \o <<",", " ">> \o Field(JobTitle, <<"2">>)
    \o <<"}">>,
    NestedText }

ValidInputs ==
  {[family |-> "valid", values |-> <<text>>, partial |-> << >>, ws |-> << >>] :
     text \in ValidTexts}

\* numbers written without quotes:  1   100000   -5   1.5
NumberTokens ==
  { <<"1">>, <<"1", "0", "0", "0", "0", "0">>, <<"-", "5">>, <<"1", ".", "5">> }

\* an object whose values are written without quotes, numbers or the word x,
\* with or without a comma before the closing brace
UnquotedInputs ==
  {[family |-> "unquoted", values |-> vs, partial |-> << >>, ws |-> w] :
     vs \in SeqsOf(NumberTokens \cup {<<"x">>}, 1, MaxFields),
     w \in {<< >>, <<",">>}}

\* a complete line  "f9": "z",  that follows the cut line of a truncated input
LaterLine == Field(KeyOf(9), <<"z">>) \o <<",">>

\* a truncated input whose cut line is followed by one more line
InterruptedInputs ==
  {[family |-> "interrupted", values |-> vs, partial |-> p, ws |-> LaterLine] :
     vs \in SeqsOf({<<"x">>, <<"1">>}, 1, MaxComplete),
     p \in SeqsOf({"p", ",", " "}, 1, MaxPartialLen)}

\* the value  a, b  of the last field, which the text is cut inside
CutValue == <<"a", ",", " ", "b">>

\* a truncated input for each point at which CutValue can be cut: right after
\* the opening quote, after a, after the comma, after the space, after b
CutInputs ==
  {[family |-> "cut", values |-> vs, partial |-> SubSeq(CutValue, 1, c), ws |-> << >>] :
     vs \in SeqsOf({<<"x">>, <<"1">>}, 1, MaxComplete),
     c \in 0..Len(CutValue)}

Inputs ==
  TruncatedInputs \cup CommaInputs \cup NewlineInputs \cup NumericInputs \cup ValidInputs
  \cup UnquotedInputs \cup CutInputs

\* the markers that open a fenced block, and those that close one
Openings ==
  { << >>, Fence \o <<"j", "s", "o", "n", "\n">>,
    Fence \o <<"m", "a", "r", "k", "d", "o", "w", "n", "\n">>, Fence \o <<"\n">> }

Closings == { << >>, <<"\n">> \o Fence, Fence }

\* the objects that are wrapped:  {}   {"f1": "x"}   {"f1": 1}
FencedBodies ==
  { <<"{", "}">>, <<"{">> \o Field(KeyOf(1), <<"x">>) \o <<"}">>,
    <<"{">> \o Q(KeyOf(1)) \o <<":", " ", "1", "}">> }

\* an object wrapped in fences: an opening marker, a closing marker, or both
FencedInputs ==
  {[family |-> "fenced", values |-> w, partial |-> << >>, ws |-> << >>] :
     w \in {x \in Openings \X FencedBodies \X Closings : x[1] # << >> \/ x[3] # << >>}}

\* the pieces of a text with markdown in it are at most this many
MaxPieces == 4

\* the pieces: a fence, the halves of the word json, a space, a newline, {}
Pieces ==
  { Fence, <<"j", "s">>, <<"o", "n">>, <<" ">>, <<"\n">>, <<"{", "}">> }

\* a text put together from pieces, in any order
MarkupInputs ==
  {[family |-> "markup", values |-> ps, partial |-> << >>, ws |-> << >>] :
     ps \in SeqsOf(Pieces, 1, MaxPieces)}

\* the pieces from n on, one after the other
RECURSIVE Concat(_, _)
Concat(pieces, n) ==
  IF n > Len(pieces) THEN << >> ELSE pieces[n] \o Concat(pieces, n + 1)

\* "f1": "v1" sep "f2": "v2" sep ... for the fields from n on
RECURSIVE FieldsFrom(_, _, _)
FieldsFrom(values, n, sep) ==
  IF n > Len(values) THEN << >>
  ELSE Field(KeyOf(n), values[n])
       \o (IF n < Len(values) THEN sep ELSE << >>) \o FieldsFrom(values, n + 1, sep)

\* "f1": v1, "f2": v2, ... for the fields from n on, the values unquoted
RECURSIVE UnquotedFieldsFrom(_, _)
UnquotedFieldsFrom(values, n) ==
  IF n > Len(values) THEN << >>
  ELSE Q(KeyOf(n)) \o <<":", " ">> \o values[n]
       \o (IF n < Len(values) THEN <<",", " ">> ELSE << >>)
       \o UnquotedFieldsFrom(values, n + 1)

\* the text of an input
InputText(d) ==
  CASE d.family \in {"truncated", "cut"} ->
         <<"{", "\n">> \o FieldsFrom(d.values, 1, <<",", "\n">>) \o <<",", "\n">>
         \o Q(KeyOf(Len(d.values) + 1)) \o <<":", " ", "\"">> \o d.partial
    [] d.family = "interrupted" ->
         <<"{", "\n">> \o FieldsFrom(d.values, 1, <<",", "\n">>) \o <<",", "\n">>
         \o Q(KeyOf(Len(d.values) + 1)) \o <<":", " ", "\"">> \o d.partial
         \o <<"\n">> \o d.ws
    [] d.family = "comma" ->
         <<"{">> \o FieldsFrom(d.values, 1, <<",", " ">>) \o <<",">> \o d.ws \o <<"}">>
    [] d.family = "newline" ->
         <<"{">> \o FieldsFrom(d.values, 1, <<",", " ">>) \o <<"}">>
    [] d.family = "numeric" ->
         <<"{">> \o Field(JobTitle, d.values[1]) \o <<",", " ">>
         \o Field(SalaryMin, d.values[2]) \o <<"}">>
    [] d.family = "valid" -> d.values[1]
    [] d.family = "unquoted" ->
         <<"{">> \o UnquotedFieldsFrom(d.values, 1) \o d.ws \o <<"}">>
    [] d.family = "fenced" -> d.values[1] \o d.values[2] \o d.values[3]
    [] d.family = "markup" -> Concat(d.values, 1)

\* the text of a comma input with its trailing comma removed
CommaRemoved(d) == <<"{">> \o FieldsFrom(d.values, 1, <<",", " ">>) \o d.ws \o <<"}">>

\* the complete fields of a truncated input with their values, and the
\* truncated field with the placeholder
Recovered(d) ==
  PyDict([k \in {KeyOf(n) : n \in 1..(Len(d.values) + 1)} |->
            IF k = KeyOf(Len(d.values) + 1) THEN PyStr(NA)
            ELSE PyStr(d.values[CHOOSE n \in 1..Len(d.values) : KeyOf(n) = k])])

(***************************************************************************)
(* The state machine of one structured_response call                       *)
(***************************************************************************)
VARIABLES
  client,          \* the class of the instance
  configured,      \* the credentials are not the placeholder defaults
  schema,          \* the schema argument
  pc,              \* "idle", "posted", "generate", "sleep", "done"
  response,        \* what the structured endpoint answered
  parsed_content,  \* what _extract_and_fix_json did on the completion
  inTry,           \* the running fallback was called inside the try block
  i,               \* the loop variable of the retry loop
  raw_response,    \* raw_response of the running fallback
  genCalls,        \* generate_text calls made so far
  sleeps,          \* time.sleep(1) calls made so far
  fallbackCalls,   \* _fallback_structured_response calls made so far
  textReturned,    \* some generate_text call has returned non-empty text
  genAfterText,    \* a generate_text call was made after textReturned
  result,          \* the value returned to the caller
  raised,          \* an exception left structured_response
  input,           \* the text given to a direct _extract_and_fix_json call
  genNone,         \* generate_text calls that returned None so far
  parsed_response, \* parsed_response of the latest fallback that parsed a text
  stripped,        \* the text that a direct call of a text method returned
  default_system_instruction,  \* the field of the instance that has this name
  calls,           \* the calls made on the instance in a session, with results
  cron_pc,         \* run_cron_job: "idle", "scrape", "post", "update", "done"
  pending_jobs,    \* the ids of the jobs that get_pending_jobs returned
  job,             \* the position in pending_jobs of the job being processed
  scraped_jobs_df, \* what scrape_jobs returned for it: "rows", "empty", "none"
  new_status,      \* the status that update_job_status is about to send
  batches,         \* per job, what became of the POST of its results
  status,          \* per job, its status in the worker's scrape queue
  active_connections,  \* ConnectionManager.active_connections, a list
  gone,            \* the connections whose peer has closed the socket
  broadcast_pc,    \* the broadcast task: "idle", "running", "done", "failed"
  iterator,        \* the index that the for loop of broadcast has got to
  delivered,       \* the connections that the message was sent to
  stayed,          \* in the list and open since the broadcast began
  sock,            \* the socket of the WebSocketApp: "connected" or "closed"
  opens,           \* the on_open calls made so far
  heartbeats,      \* per heartbeat thread: "none", "running" or "stopped"
  pings            \* per heartbeat thread, the pings it has sent

\* the variables of a structured_response call and of the direct calls
callVars ==
  <<client, configured, schema, pc, response, parsed_content, inTry, i, raw_response,
    genCalls, sleeps, fallbackCalls, textReturned, genAfterText, result, raised,
    input, genNone, parsed_response, stripped>>

\* the variables of a session of calls on one instance
sessionVars == <<default_system_instruction, calls>>

\* the variables of a run of the cron scraper
cronVars == <<cron_pc, pending_jobs, job, scraped_jobs_df, new_status, batches, status>>

\* the variables of the server's ConnectionManager and of one broadcast
managerVars == <<active_connections, gone, broadcast_pc, iterator, delivered, stayed>>

\* the variables of the WebSocket client and of its heartbeat threads
clientVars == <<sock, opens, heartbeats, pings>>

\* the variables that the calls above leave alone
elsewhere == <<sessionVars, cronVars, managerVars, clientVars>>

vars == <<callVars, elsewhere>>

\* default_system_instruction of __init__
DefaultInstruction == "You are a helpful AI assistant."

\* a new instance on which no call was made
SessionIdle ==
  /\ default_system_instruction = DefaultInstruction
  /\ calls = << >>

\* the ids of the jobs in the worker's scrape queue
JobIds == {"job-1", "job-2"}

\* the cron scraper before run_cron_job: every job is pending on the worker
CronIdle ==
  /\ cron_pc = "idle"
  /\ pending_jobs = << >>
  /\ job = 0
  /\ scraped_jobs_df = "none"
  /\ new_status = "none"
  /\ batches = [id \in JobIds |-> "none"]
  /\ status = [id \in JobIds |-> "pending"]

\* ConnectionManager.__init__, and no broadcast yet
ManagerIdle ==
  /\ active_connections = << >>
  /\ gone = {}
  /\ broadcast_pc = "idle"
  /\ iterator = 0
  /\ delivered = {}
  /\ stayed = {}

\* on_open is called at most this many times
MaxOpens == 3

\* a heartbeat thread sends at most this many pings
MaxPings == 2

\* the heartbeat threads, named by the on_open call that starts them
Threads == 1..MaxOpens

\* connect() before run_forever has connected: no thread yet
ClientIdle ==
  /\ sock = "closed"
  /\ opens = 0
  /\ heartbeats = [th \in Threads |-> "none"]
  /\ pings = [th \in Threads |-> 0]

ElsewhereIdle == SessionIdle /\ CronIdle /\ ManagerIdle /\ ClientIdle

Init ==
  /\ client \in Clients
  /\ configured \in BOOLEAN
  /\ schema \in Schemas
  /\ pc = "idle"
  /\ response = [k |-> "none", c |-> PyNone]
  /\ parsed_content = NotRun
  /\ inTry = FALSE
  /\ i = 0
  /\ raw_response = PyNone
  /\ genCalls = 0
  /\ sleeps = 0
  /\ fallbackCalls = 0
  /\ textReturned = FALSE
  /\ genAfterText = FALSE
  /\ result = PyNone
  /\ raised = FALSE
  /\ input = NoInput
  /\ genNone = 0
  /\ parsed_response = PyNone
  /\ stripped = << >>
  /\ ElsewhereIdle

\* structured_response is called: the credentials guard, then the POST
Call ==
  /\ pc = "idle"
  /\ pc' = IF configured THEN "posted" ELSE "done"
  /\ UNCHANGED <<elsewhere, client, configured, schema, response, parsed_content, inTry, i,
                 raw_response, genCalls, sleeps, fallbackCalls, textReturned,
                 genAfterText, result, raised, input, genNone, parsed_response,
                 stripped>>

\* The POST answers: the body runs to its return or to the first
\* generate_text call of the fallback
Respond(resp) ==
  LET Outcome(p) ==
        /\ parsed_content' = p.parsed
        /\ IF p.ret
           THEN /\ pc' = "done"
                /\ result' = p.v
                /\ UNCHANGED <<inTry, fallbackCalls>>
           ELSE /\ pc' = "generate"
                /\ inTry' = p.inTry
                /\ fallbackCalls' = fallbackCalls + 1
                /\ UNCHANGED result
  IN /\ pc = "posted"
     /\ response' = resp
     /\ Outcome(structured_primary(client, resp, schema))
     /\ UNCHANGED <<elsewhere, client, configured, schema, i, raw_response, genCalls, sleeps,
                    textReturned, genAfterText, raised, input, genNone,
                    parsed_response, stripped>>

\* One generate_text call of the retry loop answers.  Empty, None or an
\* exception leads to the sleep; non-empty text leaves the loop and is parsed:
\* the fallback returns, or raises.  An exception leaving a fallback that was
\* called inside the try block is caught by "except Exception", whose handler
\* calls the fallback again; one leaving a fallback called from a handler
\* leaves structured_response.
Generate(resp) ==
  LET Parsed(raw, parsed) ==
        /\ parsed_response' = parsed.parsed
        /\ IF ~parsed.raised
           THEN /\ pc' = "done"
                /\ raw_response' = raw
                /\ result' = parsed.v
                /\ UNCHANGED <<inTry, i, fallbackCalls, raised>>
           ELSE IF inTry
           THEN /\ pc' = "generate"
                /\ inTry' = FALSE
                /\ i' = 0
                /\ raw_response' = PyNone
                /\ fallbackCalls' = fallbackCalls + 1
                /\ UNCHANGED <<result, raised>>
           ELSE /\ pc' = "done"
                /\ raw_response' = raw
                /\ raised' = TRUE
                /\ UNCHANGED <<inTry, i, fallbackCalls, result>>
      Answered(raw) ==
        /\ textReturned' = (textReturned \/ Truthy(raw))
        /\ IF ~Truthy(raw)
           THEN /\ pc' = "sleep"
                /\ raw_response' = raw
                /\ UNCHANGED <<inTry, i, fallbackCalls, result, raised, parsed_response>>
           ELSE IF client = "CloudflareAI"
           THEN Parsed(raw, fallback_parse(raw.s, schema))
           ELSE Parsed(raw, direct_fallback_parse(raw.s, schema))
      Called(g) ==
        /\ genNone' = IF ~g.raised /\ g.v = PyNone THEN genNone + 1 ELSE genNone
        /\ Answered(IF g.raised THEN raw_response ELSE g.v)
  IN /\ pc = "generate"
     /\ genCalls' = genCalls + 1
     /\ genAfterText' = (genAfterText \/ textReturned)
     /\ Called(generate_text(resp))
     /\ UNCHANGED <<elsewhere, client, configured, schema, response, parsed_content, sleeps, input,
                    stripped>>

\* time.sleep(1) after a failed attempt, then the next attempt, or the end of
\* the loop with an empty raw_response: return None
Sleep ==
  /\ pc = "sleep"
  /\ sleeps' = sleeps + 1
  /\ IF NextAttempt(i)
     THEN pc' = "generate" /\ i' = i + 1
     ELSE pc' = "done" /\ i' = i
  /\ UNCHANGED <<elsewhere, client, configured, schema, response, parsed_content, inTry,
                 raw_response, genCalls, fallbackCalls, textReturned, genAfterText,
                 result, raised, input, genNone, parsed_response, stripped>>

Next ==
  \/ Call
  \/ \E resp \in Responses : Respond(resp)
  \/ \E resp \in GenResponses : Generate(resp)
  \/ Sleep

Spec == Init /\ [][Next]_vars

(***************************************************************************)
(* _extract_and_fix_json called on a text, as test_json_fixing does        *)
(***************************************************************************)
InitExtract ==
  /\ client \in Clients
  /\ configured = TRUE
  /\ schema \in Schemas
  /\ pc = "text"
  /\ input \in Inputs
  /\ response = [k |-> "none", c |-> PyNone]
  /\ parsed_content = NotRun
  /\ inTry = FALSE
  /\ i = 0
  /\ raw_response = PyNone
  /\ genCalls = 0
  /\ sleeps = 0
  /\ fallbackCalls = 0
  /\ textReturned = FALSE
  /\ genAfterText = FALSE
  /\ result = PyNone
  /\ raised = FALSE
  /\ genNone = 0
  /\ parsed_response = PyNone
  /\ stripped = << >>
  /\ ElsewhereIdle

\* CloudflareAI()._extract_and_fix_json(text, schema)
Extract ==
  /\ pc = "text"
  /\ client = "CloudflareAI"
  /\ pc' = "extracted"
  /\ parsed_content' = extract_and_fix_json(InputText(input), schema)
  /\ UNCHANGED <<elsewhere, client, configured, schema, response, inTry, i, raw_response, genCalls,
                 sleeps, fallbackCalls, textReturned, genAfterText, result, raised, input,
                 genNone, parsed_response, stripped>>

\* CloudflareAIDirect()._extract_and_fix_json(text, schema)
DirectExtract ==
  /\ pc = "text"
  /\ client = "CloudflareAIDirect"
  /\ pc' = "extracted"
  /\ parsed_content' = direct_extract_and_fix_json(InputText(input), schema)
  /\ UNCHANGED <<elsewhere, client, configured, schema, response, inTry, i, raw_response, genCalls,
                 sleeps, fallbackCalls, textReturned, genAfterText, result, raised, input,
                 genNone, parsed_response, stripped>>

NextExtract == Extract \/ DirectExtract

SpecExtract == InitExtract /\ [][NextExtract]_vars

(***************************************************************************)
(* The markdown-strip methods called on a fenced text                      *)
(***************************************************************************)
InitStrip ==
  /\ client \in Clients
  /\ configured = TRUE
  /\ schema \in Schemas
  /\ pc = "text"
  /\ input \in FencedInputs \cup MarkupInputs
  /\ response = [k |-> "none", c |-> PyNone]
  /\ parsed_content = NotRun
  /\ inTry = FALSE
  /\ i = 0
  /\ raw_response = PyNone
  /\ genCalls = 0
  /\ sleeps = 0
  /\ fallbackCalls = 0
  /\ textReturned = FALSE
  /\ genAfterText = FALSE
  /\ result = PyNone
  /\ raised = FALSE
  /\ genNone = 0
  /\ parsed_response = PyNone
  /\ stripped = << >>
  /\ ElsewhereIdle

\* strip_code_block_tildes(text), a static method of both classes
StripTildes ==
  /\ pc = "text"
  /\ pc' = "stripped_tildes"
  /\ stripped' = strip_code_block_tildes(InputText(input))
  /\ UNCHANGED <<elsewhere, client, configured, schema, response, parsed_content, inTry, i,
                 raw_response, genCalls, sleeps, fallbackCalls, textReturned,
                 genAfterText, result, raised, input, genNone, parsed_response>>

\* CloudflareAIDirect().strip_all_markdown_formatting(text)
StripAll ==
  /\ pc = "text"
  /\ client = "CloudflareAIDirect"
  /\ pc' = "stripped_all"
  /\ stripped' = strip_all_markdown_formatting(InputText(input))
  /\ UNCHANGED <<elsewhere, client, configured, schema, response, parsed_content, inTry, i,
                 raw_response, genCalls, sleeps, fallbackCalls, textReturned,
                 genAfterText, result, raised, input, genNone, parsed_response>>

\* the text that structured_response has stripped already is stripped again
\* at the start of CloudflareAIDirect._extract_and_fix_json
StripAllAgain ==
  /\ pc = "stripped_all"
  /\ pc' = "stripped_twice"
  /\ stripped' = strip_all_markdown_formatting(stripped)
  /\ UNCHANGED <<elsewhere, client, configured, schema, response, parsed_content, inTry,
                 i, raw_response, genCalls, sleeps, fallbackCalls, textReturned,
                 genAfterText, result, raised, input, genNone, parsed_response>>

NextStrip == StripTildes \/ StripAll \/ StripAllAgain

SpecStrip == InitStrip /\ [][NextStrip]_vars

(***************************************************************************)
(* _attempt_json_completion called on a text that was cut inside a value   *)
(***************************************************************************)
InitComplete ==
  /\ client = "CloudflareAI"
  /\ configured = TRUE
  /\ schema \in Schemas
  /\ pc = "text"
  /\ input \in TruncatedInputs \cup InterruptedInputs
  /\ response = [k |-> "none", c |-> PyNone]
  /\ parsed_content = NotRun
  /\ inTry = FALSE
  /\ i = 0
  /\ raw_response = PyNone
  /\ genCalls = 0
  /\ sleeps = 0
  /\ fallbackCalls = 0
  /\ textReturned = FALSE
  /\ genAfterText = FALSE
  /\ result = PyNone
  /\ raised = FALSE
  /\ genNone = 0
  /\ parsed_response = PyNone
  /\ stripped = << >>
  /\ ElsewhereIdle

\* CloudflareAI()._attempt_json_completion(text, schema)
Complete ==
  /\ pc = "text"
  /\ pc' = "completed"
  /\ stripped' = attempt_json_completion(InputText(input), schema)
  /\ UNCHANGED <<elsewhere, client, configured, schema, response, parsed_content, inTry, i,
                 raw_response, genCalls, sleeps, fallbackCalls, textReturned,
                 genAfterText, result, raised, input, genNone, parsed_response>>

NextComplete == Complete

SpecComplete == InitComplete /\ [][NextComplete]_vars

(***************************************************************************)
(* A session: calls made one after the other on one instance               *)
(***************************************************************************)
\* the calls of a session are at most this many
MaxCalls == 3

Instructions == {DefaultInstruction, "Answer in JSON."}

\* a truncated object, an object with a money value, a list that holds the
\* word json: texts that take different paths through the stages
SessionInputs ==
  { [family |-> "truncated", values |-> <<<<"x">>>>, partial |-> <<"p">>, ws |-> << >>],
    [family |-> "numeric", values |-> <<<<"1">>, Money>>, partial |-> << >>, ws |-> << >>],
    [family |-> "valid",
     values |-> << <<"[", "{">> \o Field(KeyOf(1), <<"j", "s", "o", "n">>) \o <<"}", "]">> >>,
     partial |-> << >>, ws |-> << >>] }

\* the fields of the instance that a method can read through self
Self == [default_system_instruction |-> default_system_instruction]

\* an extraction that gives up unless the instruction is the default one
instance_extract_reads_instruction(cl, self, text, sch) ==
  IF self.default_system_instruction # DefaultInstruction THEN Returns(PyNone, <<"direct">>)
  ELSE IF cl = "CloudflareAI" THEN extract_and_fix_json(text, sch)
  ELSE direct_extract_and_fix_json(text, sch)

\* self._extract_and_fix_json(text, schema) on an instance of class cl: neither
\* class reads a field of self in it or in the methods it calls
instance_extract(cl, self, text, sch) ==
  IF cl = "CloudflareAI" THEN extract_and_fix_json(text, sch)
  ELSE direct_extract_and_fix_json(text, sch)

InitSession ==
  /\ client \in Clients
  /\ configured = TRUE
  /\ schema = NoPropsSchema
  /\ pc = "session"
  /\ input = NoInput
  /\ response = [k |-> "none", c |-> PyNone]
  /\ parsed_content = NotRun
  /\ inTry = FALSE
  /\ i = 0
  /\ raw_response = PyNone
  /\ genCalls = 0
  /\ sleeps = 0
  /\ fallbackCalls = 0
  /\ textReturned = FALSE
  /\ genAfterText = FALSE
  /\ result = PyNone
  /\ raised = FALSE
  /\ genNone = 0
  /\ parsed_response = PyNone
  /\ stripped = << >>
  /\ ElsewhereIdle

\* instance.set_system_instruction(instruction)
SetSystemInstruction(instruction) ==
  /\ pc = "session"
  /\ Len(calls) < MaxCalls
  /\ default_system_instruction' = instruction
  /\ calls' = Append(calls, [call |-> "set_system_instruction", input |-> NoInput,
                             schema |-> NoPropsSchema, out |-> NotRun,
                             instruction |-> instruction])
  /\ UNCHANGED <<callVars, cronVars, managerVars, clientVars>>

\* instance._extract_and_fix_json(text, sch): no assignment to a field of self
SessionExtract(d, sch) ==
  LET Logged(out) ==
        /\ parsed_content' = out
        /\ calls' = Append(calls, [call |-> "extract", input |-> d, schema |-> sch,
                                   out |-> out,
                                   instruction |-> default_system_instruction'])
  IN /\ pc = "session"
     /\ Len(calls) < MaxCalls
     /\ input' = d
     /\ schema' = sch
     /\ UNCHANGED default_system_instruction
     /\ Logged(instance_extract(client, Self, InputText(d), sch))
     /\ UNCHANGED <<client, configured, pc, response, inTry, i, raw_response, genCalls,
                    sleeps, fallbackCalls, textReturned, genAfterText, result, raised,
                    genNone, parsed_response, stripped, cronVars, managerVars, clientVars>>

NextSession ==
  \/ \E instruction \in Instructions : SetSystemInstruction(instruction)
  \/ \E d \in SessionInputs, sch \in Schemas : SessionExtract(d, sch)

SpecSession == InitSession /\ [][NextSession]_vars

(***************************************************************************)
(* cron_scraper.run_cron_job: one run over the pending jobs                *)
(***************************************************************************)
\* the lists of jobs that the worker can answer the poll with
PendingLists == {<< >>} \cup {<<id>> : id \in JobIds}
                \cup {x \in JobIds \X JobIds : x[1] # x[2]}

\* a client that no call is made on
InitCron ==
  /\ client = "CloudflareAI"
  /\ configured = TRUE
  /\ schema = NoPropsSchema
  /\ pc = "idle"
  /\ input = NoInput
  /\ response = [k |-> "none", c |-> PyNone]
  /\ parsed_content = NotRun
  /\ inTry = FALSE
  /\ i = 0
  /\ raw_response = PyNone
  /\ genCalls = 0
  /\ sleeps = 0
  /\ fallbackCalls = 0
  /\ textReturned = FALSE
  /\ genAfterText = FALSE
  /\ result = PyNone
  /\ raised = FALSE
  /\ genNone = 0
  /\ parsed_response = PyNone
  /\ stripped = << >>
  /\ ElsewhereIdle

\* the loop of run_cron_job goes to the next job, or ends
NextJob ==
  IF job < Len(pending_jobs)
  THEN cron_pc' = "scrape" /\ job' = job + 1
  ELSE cron_pc' = "done" /\ job' = job

\* get_pending_jobs: the list the worker answers with, or [] when the request
\* fails or the answer has no jobs
GetPendingJobs(jobs) ==
  /\ cron_pc = "idle"
  /\ pending_jobs' = jobs
  /\ IF jobs = << >>
     THEN cron_pc' = "done" /\ job' = job
     ELSE cron_pc' = "scrape" /\ job' = 1
  /\ UNCHANGED <<callVars, sessionVars, managerVars, clientVars, scraped_jobs_df,
                 new_status, batches, status>>

\* scrape_jobs(...) for the job: a frame with rows, an empty frame or None, or
\* an exception, which the except clause of run_cron_job turns into "failed"
ScrapeJobs(outcome) ==
  /\ cron_pc = "scrape"
  /\ IF outcome = "raise"
     THEN /\ cron_pc' = "update"
          /\ new_status' = "failed"
          /\ UNCHANGED scraped_jobs_df
     ELSE /\ cron_pc' = "post"
          /\ scraped_jobs_df' = outcome
          /\ UNCHANGED new_status
  /\ UNCHANGED <<callVars, sessionVars, managerVars, clientVars, pending_jobs, job, batches,
                 status>>

\* post_job_results(scraped_jobs_df): nothing to post, or the POST of the
\* batch, whose RequestException is caught and printed; it returns either way
\* and run_cron_job goes on to update_job_status(job_id, "completed")
PostJobResults(ok) ==
  /\ cron_pc = "post"
  /\ batches' = [batches EXCEPT ![pending_jobs[job]] =
                   IF scraped_jobs_df = "empty" THEN "nothing to post"
                   ELSE IF ok THEN "posted" ELSE "failed"]
  /\ cron_pc' = "update"
  /\ new_status' = "completed"
  /\ UNCHANGED <<callVars, sessionVars, managerVars, clientVars, pending_jobs, job,
                 scraped_jobs_df, status>>

\* update_job_status(job_id, new_status): the PATCH reaches the worker, or its
\* RequestException is caught and printed; then the next job
UpdateJobStatus(ok) ==
  /\ cron_pc = "update"
  /\ status' = IF ok THEN [status EXCEPT ![pending_jobs[job]] = new_status] ELSE status
  /\ NextJob
  /\ UNCHANGED <<callVars, sessionVars, managerVars, clientVars, pending_jobs,
                 scraped_jobs_df, new_status, batches>>

NextCron ==
  \/ \E jobs \in PendingLists : GetPendingJobs(jobs)
  \/ \E outcome \in {"rows", "empty", "raise"} : ScrapeJobs(outcome)
  \/ \E ok \in BOOLEAN : PostJobResults(ok)
  \/ \E ok \in BOOLEAN : UpdateJobStatus(ok)

SpecCron == InitCron /\ [][NextCron]_vars

(***************************************************************************)
(* main.py: the ConnectionManager and one broadcast, as tasks of the event *)
(* loop that give way to one another at each await                         *)
(***************************************************************************)
Connections == {"ws1", "ws2", "ws3"}

\* the members of a list
Members(list) == {list[n] : n \in 1..Len(list)}

\* list.remove(x): the list without the first item equal to x
Remove(list, x) ==
  LET first == Least({n \in 1..Len(list) : list[n] = x})
  IN SubSeq(list, 1, first - 1) \o SubSeq(list, first + 1, Len(list))

\* a client on which no call is made, a cron scraper that does not run
InitManager == InitCron

\* websocket_endpoint: manager.connect(websocket) accepts and appends
Connect(websocket) ==
  /\ websocket \notin Members(active_connections) \cup gone
  /\ active_connections' = Append(active_connections, websocket)
  /\ UNCHANGED <<callVars, sessionVars, cronVars, clientVars, gone, broadcast_pc, iterator,
                 delivered, stayed>>

\* the peer of a connection closes the socket: from now on a send to it
\* raises, and its receive_text will raise WebSocketDisconnect
PeerCloses(websocket) ==
  /\ websocket \in Members(active_connections) \ gone
  /\ gone' = gone \cup {websocket}
  /\ stayed' = IF broadcast_pc = "running" THEN stayed \ {websocket} ELSE stayed
  /\ UNCHANGED <<callVars, sessionVars, cronVars, clientVars, active_connections, broadcast_pc,
                 iterator, delivered>>

\* websocket_endpoint: receive_text raises WebSocketDisconnect and the handler
\* calls manager.disconnect(websocket), which removes it from the list
Disconnect(websocket) ==
  /\ websocket \in gone
  /\ websocket \in Members(active_connections)
  /\ active_connections' = Remove(active_connections, websocket)
  /\ UNCHANGED <<callVars, sessionVars, cronVars, clientVars, gone, broadcast_pc, iterator,
                 delivered, stayed>>

\* WebSocketLogHandler.emit: asyncio.create_task(manager.broadcast(log_entry));
\* the task begins its for loop over self.active_connections
Emit ==
  /\ broadcast_pc = "idle"
  /\ broadcast_pc' = "running"
  /\ iterator' = 0
  /\ stayed' = Members(active_connections) \ gone
  /\ UNCHANGED <<callVars, sessionVars, cronVars, clientVars, active_connections, gone, delivered>>

\* one turn of the for loop of broadcast: the list iterator takes the item at
\* its index in the list as it is now, or ends the loop; send_text delivers
\* the message, or raises when the peer has closed, and the exception leaves
\* broadcast
BroadcastStep ==
  /\ broadcast_pc = "running"
  /\ IF iterator >= Len(active_connections)
     THEN /\ broadcast_pc' = "done"
          /\ UNCHANGED <<iterator, delivered>>
     ELSE /\ iterator' = iterator + 1
          /\ IF active_connections[iterator + 1] \in gone
             THEN broadcast_pc' = "failed" /\ UNCHANGED delivered
             ELSE /\ delivered' = delivered \cup {active_connections[iterator + 1]}
                  /\ UNCHANGED broadcast_pc
  /\ UNCHANGED <<callVars, sessionVars, cronVars, clientVars, active_connections, gone, stayed>>

NextManager ==
  \/ \E websocket \in Connections : Connect(websocket)
  \/ \E websocket \in Connections : PeerCloses(websocket)
  \/ \E websocket \in Connections : Disconnect(websocket)
  \/ Emit
  \/ BroadcastStep

SpecManager == InitManager /\ [][NextManager]_vars

(***************************************************************************)
(* websocket_client.py and client.py: run_forever(reconnect=5) and the     *)
(* heartbeat threads that on_open starts                                   *)
(***************************************************************************)
InitClient == InitCron

\* run_forever has connected, or connected again after a close, and calls
\* on_open, which starts a heartbeat thread on the same WebSocketApp
OnOpen ==
  /\ sock = "closed"
  /\ opens < MaxOpens
  /\ sock' = "connected"
  /\ opens' = opens + 1
  /\ heartbeats' = [heartbeats EXCEPT ![opens + 1] = "running"]
  /\ UNCHANGED <<callVars, sessionVars, cronVars, managerVars, pings>>

\* the connection is lost: on_close, and run_forever will connect again
OnClose ==
  /\ sock = "connected"
  /\ sock' = "closed"
  /\ UNCHANGED <<callVars, sessionVars, cronVars, managerVars, opens, heartbeats, pings>>

\* one turn of send_heartbeat in thread th, which wakes from time.sleep(30):
\* ws.send("ping") goes out on the socket that ws has now, or raises because
\* there is none, and then the loop breaks
SendHeartbeat(th) ==
  /\ heartbeats[th] = "running"
  /\ pings[th] < MaxPings
  /\ IF sock = "connected"
     THEN pings' = [pings EXCEPT ![th] = pings[th] + 1] /\ UNCHANGED heartbeats
     ELSE heartbeats' = [heartbeats EXCEPT ![th] = "stopped"] /\ UNCHANGED pings
  /\ UNCHANGED <<callVars, sessionVars, cronVars, managerVars, sock, opens>>

NextClient ==
  \/ OnOpen
  \/ OnClose
  \/ \E th \in Threads : SendHeartbeat(th)

SpecClient == InitClient /\ [][NextClient]_vars

(***************************************************************************)
(* The claims                                                              *)
(***************************************************************************)
\* structured_response has returned to its caller
Returned == pc = "done" /\ ~raised

\* the completion content the structured endpoint answered with, if any
ContentIs(c) == response.k = "content" /\ response.c = c

\* C1: every value structured_response returns is None or a mapping; valid
\* JSON that is not an object is never handed to the caller.
C1_ResultIsNoneOrMapping == Returned => result.kind \in {"None", "dict"}

\* C2: structured_response never raises to its caller, whatever the
\* completion content and whatever each regeneration request does.
C2_NeverRaises == ~raised

\* C3: every non-None result produced by a parse path or by the regeneration
\* path contains every key declared in the schema's properties.
C3_SchemaComplete ==
  (Returned /\ result # PyNone /\ response.c.kind # "dict")
    => (result.kind = "dict" /\ SchemaKeys(schema) \subseteq DOMAIN result.f)

\* C4: a completion content that is already a mapping is returned exactly as
\* it is, with no stripping, parsing, coercion, filling or regeneration.
C4_MappingReturnedUnchanged ==
  (pc = "done" /\ response.k = "content" /\ response.c.kind = "dict")
    => /\ ~raised
       /\ result = response.c
       /\ parsed_content = NotRun
       /\ fallbackCalls = 0
       /\ genCalls = 0

C4_Witness ==
  /\ Returned
  /\ ContentIs(DictContent)
  /\ schema = JobSchema
  /\ result = DictContent

\* C5 as stated: a None or empty completion content makes structured_response
\* return None at once, with no parse stage run and no generate_text call.
C5_FailsImmediately ==
  (pc = "done" /\ (ContentIs(PyNone) \/ ContentIs(PyStr(<< >>))))
    => /\ Returned
       /\ result = PyNone
       /\ parsed_content = NotRun
       /\ genCalls = 0

\* C5 as amended: for a None or empty completion content no parse stage yields
\* a result, and structured_response does not finish at once: it goes on to
\* regeneration and makes at least one generate_text call before it finishes.
C5_FallsThroughToRegeneration ==
  (pc = "done" /\ (ContentIs(PyNone) \/ ContentIs(PyStr(<< >>))))
    => /\ ~Truthy(parsed_content.v)
       /\ fallbackCalls >= 1
       /\ genCalls >= 1

C5_Witness ==
  /\ Returned
  /\ ContentIs(PyStr(<< >>))
  /\ result = PyNone
  /\ genCalls = Retries

\* C6 as stated: on every path that ends in None at least one regeneration
\* request was issued before the return.
C6_NoneOnlyAfterRegeneration == (Returned /\ result = PyNone) => genCalls >= 1

\* C6 as amended: when the credentials are configured, on every path that
\* ends in None at least one regeneration request was issued before the
\* return; without credentials None is returned at once.
C6_NoneOnlyAfterRegenerationWhenConfigured ==
  /\ (Returned /\ result = PyNone /\ configured) => (fallbackCalls >= 1 /\ genCalls >= 1)
  /\ (pc = "done" /\ ~configured) => (Returned /\ result = PyNone /\ genCalls = 0)

C6_Witness ==
  /\ Returned
  /\ configured
  /\ response.k = "nochoices"
  /\ result = PyNone
  /\ genCalls = Retries

\* C7: generate_text is called at most 3 times during one structured_response
\* call, and never again once a call has returned non-empty text.
C7_AtMostThreeRequests == genCalls <= Retries /\ ~genAfterText

\* C8: for a truncated object (complete "key": "value", lines, then a line
\* cut inside its value, no closing brace) CloudflareAI._extract_and_fix_json
\* returns the mapping of the complete fields to their values and of the
\* truncated field to "n/a".
C8_TruncationRecovery ==
  (pc = "extracted" /\ client = "CloudflareAI" /\ input.family = "truncated")
    => (~parsed_content.raised /\ parsed_content.v = Recovered(input))

\* C9: for the schema {job_title: string, salary_min: number} and the
\* completion {"job_title": "Engineer", "salary_min": "$100,000" without its
\* closing brace, the result is {job_title: "Engineer", salary_min: 100000.0}
\* and no regeneration request is made.
C9_ScenarioResult ==
  (pc = "done" /\ ContentIs(PyStr(ScenarioText)) /\ schema = JobSchema)
    => /\ Returned
       /\ result = PyDict((JobTitle :> PyStr(Engineer)) @@ (SalaryMin :> PyNum(TRUE, 100000, 0)))
       /\ genCalls = 0

\* C10: for an object of quoted strings whose only defect is a comma before
\* the closing brace, _extract_and_fix_json of either client returns exactly
\* the mapping that the text without that comma parses to.
C10_TrailingCommaRepair ==
  (pc = "extracted" /\ input.family = "comma")
    => /\ ~parsed_content.raised
       /\ json_loads(CommaRemoved(input)).ok
       /\ parsed_content.v = json_loads(CommaRemoved(input)).v

\* a direct call of _extract_and_fix_json has returned or raised
Extracted == pc = "extracted"

\* the keys f1..fn of an input of n fields
InputKeys(d) == {KeyOf(n) : n \in 1..Len(d.values)}

\* C11: for an object that is valid JSON except for a raw newline character
\* inside a string value, CloudflareAI._extract_and_fix_json returns a mapping
\* (not None) that has every field of the text.
C11_NewlineRepair ==
  (Extracted /\ client = "CloudflareAI" /\ input.family = "newline")
    => /\ ~parsed_content.raised
       /\ parsed_content.v.kind = "dict"
       /\ DOMAIN parsed_content.v.f = InputKeys(input)

\* a character that is kept when "$" and "," are deleted
MoneyKept(c) == c \notin {"$", ","}

IsDigit(c) == c \in Digits

\* The number a money text stands for once "$" and "," are deleted: digits
\* with at most one decimal point among them.  [ok, v]
MoneyNumber(value) ==
  LET r == SelectSeq(value, MoneyKept)
      points == {k \in 1..Len(r) : r[k] = "."}
      digits == SelectSeq(r, IsDigit)
      decimals == IF points = {} THEN 0 ELSE Len(r) - Least(points)
  IN IF /\ \A k \in 1..Len(r) : r[k] \in Digits \cup {"."}
        /\ Cardinality(points) <= 1
        /\ Len(digits) >= 1
     THEN [ok |-> TRUE, v |-> PyNum(TRUE, DigitsValue(digits, 1, Len(digits), 0), -decimals)]
     ELSE [ok |-> FALSE, v |-> PyNone]

\* what the field declared a number holds after the coercion of value
Coerced(value) ==
  IF MoneyNumber(value).ok THEN MoneyNumber(value).v ELSE PyStr(value)

\* C12: a CloudflareAIDirect extraction of an object whose field declared
\* type number holds a string succeeds, and the field becomes the number left
\* after deleting "$" and "," ("$1,234.50" becomes 1234.5), or keeps the
\* original string when what is left is not a number ("competitive").
C12_NumericCoercion ==
  (Extracted /\ client = "CloudflareAIDirect" /\ input.family = "numeric")
    => /\ ~parsed_content.raised
       /\ parsed_content.v.kind = "dict"
       /\ DOMAIN parsed_content.v.f = {JobTitle, SalaryMin}
       /\ schema = JobSchema => parsed_content.v.f[SalaryMin] = Coerced(input.values[2])

C12_Witness ==
  /\ Extracted
  /\ client = "CloudflareAIDirect"
  /\ schema = JobSchema
  /\ input.family = "numeric"
  /\ input.values[2] = Money
  /\ ~parsed_content.raised
  /\ parsed_content.v.f[SalaryMin] = PyNum(TRUE, 12345, -1)

\* C13: when the completion text holds no "{" and every regeneration request
\* returns None, structured_response returns None, and the text went through
\* no boundary extraction, repair or completion.
C13_TotalFailure ==
  (/\ pc = "done"
   /\ response.k = "content"
   /\ response.c.kind = "str"
   /\ ~Contains(response.c.s, <<"{">>)
   /\ genNone = genCalls)
    => /\ Returned
       /\ result = PyNone
       /\ \A k \in 1..Len(parsed_content.stages) : parsed_content.stages[k] = "direct"

\* C14: for an object wrapped in json, markdown or bare fences (an opening
\* marker, a closing marker, or both), strip_code_block_tildes and
\* strip_all_markdown_formatting return the object alone: every fence marker
\* with its language tag is removed and the whitespace around is trimmed.
C14_FencesRemoved ==
  (pc \in {"stripped_tildes", "stripped_all"} /\ input.family = "fenced")
    => stripped = input.values[2]

\* _fallback_structured_response has returned a result to structured_response,
\* which has returned it
FallbackReturned == Returned /\ fallbackCalls >= 1 /\ result # PyNone

\* C15: a non-None result of _fallback_structured_response has exactly the
\* keys of schema["properties"]; each holds the value of the parsed
\* regenerated object when the key is there and "n/a" otherwise, and the keys
\* of the parsed object that the schema does not declare are dropped.
C15_FallbackKeysAreSchemaKeys ==
  FallbackReturned
    => /\ result.kind = "dict"
       /\ parsed_response.kind = "dict"
       /\ DOMAIN result.f = SchemaKeys(schema)
       /\ \A key \in SchemaKeys(schema) :
            result.f[key] = IF key \in DOMAIN parsed_response.f
                            THEN parsed_response.f[key] ELSE PyStr(NA)

C15_Witness ==
  /\ FallbackReturned
  /\ schema = JobSchema
  /\ <<"z">> \in DOMAIN parsed_response.f
  /\ result = PyDict((JobTitle :> PyStr(<<"D", "e", "v">>)) @@ (SalaryMin :> PyStr(NA)))

\* the primary stages of a client, run on a text, turn it into an object by
\* direct parse, boundary extraction or syntactic repair
WouldParse(cl, text, sch) ==
  LET Object(p) ==
        /\ ~p.raised
        /\ p.v.kind = "dict"
        /\ \A k \in 1..Len(p.stages) : p.stages[k] # "completion"
  IN IF cl = "CloudflareAI"
     THEN Object(extract_and_fix_json(strip_code_block_tildes(text), sch))
     ELSE Object(direct_extract_and_fix_json(strip_all_markdown_formatting(text), sch))

\* the fallback has parsed the regenerated text raw_response and has ended
FallbackParsed == pc = "done" /\ Truthy(raw_response)

\* C16: every regenerated text that direct parse, boundary extraction or
\* syntactic repair turns into an object on the primary path (an object after
\* prose, an object with a trailing comma) is parsed by
\* _fallback_structured_response too, which returns a non-None result.
C16_FallbackReappliesStages ==
  (FallbackParsed /\ WouldParse(client, raw_response.s, schema)) => FallbackReturned

\* the object the regenerated text raw_response parses to, if it does
RegeneratedObject == json_loads(raw_response.s)

\* C17: when the regenerated text parses to a JSON object, however partial
\* (none of the schema's fields, the empty object), the fallback returns a
\* mapping that has every schema field, the missing ones set to "n/a"; it does
\* not return None.
C17_PartialObjectIsFilled ==
  (FallbackParsed /\ RegeneratedObject.ok /\ RegeneratedObject.v.kind = "dict")
    => /\ FallbackReturned
       /\ result.kind = "dict"
       /\ SchemaKeys(schema) \subseteq DOMAIN result.f
       /\ \A key \in SchemaKeys(schema) \ DOMAIN RegeneratedObject.v.f :
            result.f[key] = PyStr(NA)

\* C18: when a primary stage (direct parse, boundary extraction, repair,
\* completion) parses the completion into a JSON object, the empty object
\* included, structured_response returns that object and makes no
\* regeneration request.
C18_ParsedObjectIsReturned ==
  (response.k = "content" /\ ~parsed_content.raised /\ parsed_content.v.kind = "dict")
    => /\ Returned
       /\ result = parsed_content.v
       /\ fallbackCalls = 0
       /\ genCalls = 0

\* the text the stages of _extract_and_fix_json work on: CloudflareAIDirect
\* strips the markdown first
StageText(cl, text) ==
  IF cl = "CloudflareAIDirect" THEN strip_all_markdown_formatting(text) ELSE text

\* the slice from the first "{" to the last "}"
BoundarySlice(text) == Slice(text, Find(text, "{"), RFind(text, "}"))

\* a parsed value as the client returns it: CloudflareAIDirect coerces the
\* fields declared numbers
AsReturned(cl, v, sch) ==
  IF cl = "CloudflareAIDirect" THEN fix_numeric_values(v, sch, << >>).v ELSE v

\* stage is one of the stages the call went through
WentThrough(stage) ==
  \E k \in 1..Len(parsed_content.stages) : parsed_content.stages[k] = stage

\* C19: _extract_and_fix_json tries the direct parse of the stripped text,
\* then the parse of the slice from the first "{" to the last "}", then the
\* parse of the repaired slice; a later stage runs only if every earlier one
\* failed; and a text that is valid JSON as it is comes back as it parses,
\* from the direct parse alone, never sliced or repaired.
C19_StagesInOrder ==
  Extracted =>
    /\ Len(parsed_content.stages) > 1
         => ~json_loads(StageText(client, InputText(input))).ok
    /\ (WentThrough("boundary") /\ WentThrough("repair"))
         => ~json_loads(BoundarySlice(StageText(client, InputText(input)))).ok
    /\ json_loads(InputText(input)).ok
         => /\ ~parsed_content.raised
            /\ parsed_content.stages = <<"direct">>
            /\ parsed_content.v = AsReturned(client, json_loads(InputText(input)).v, schema)

\* C20: the repair applies trailing-comma removal, newline escaping and
\* quote-adding one after the other and parses after each: a slice that no
\* earlier stage parses and that is valid JSON once its trailing commas are
\* removed is returned as it then parses, before any quote-adding.
C20_ParseAfterEachRewrite ==
  (/\ Extracted
   /\ Find(StageText(client, InputText(input)), "{") # 0
   /\ RFind(StageText(client, InputText(input)), "}") # 0
   /\ ~json_loads(StageText(client, InputText(input))).ok
   /\ ~json_loads(BoundarySlice(StageText(client, InputText(input)))).ok
   /\ json_loads(RemoveTrailingCommasFrom(
                   BoundarySlice(StageText(client, InputText(input))), 1)).ok)
    => /\ ~parsed_content.raised
       /\ parsed_content.v =
            AsReturned(client,
                       json_loads(RemoveTrailingCommasFrom(
                         BoundarySlice(StageText(client, InputText(input))), 1)).v,
                       schema)

\* C21: whenever the repair stage of _extract_and_fix_json (either client)
\* succeeds on a text whose fields hold unquoted numbers, each such field is a
\* number, not a string, in the returned mapping.
C21_NumbersStayNumbers ==
  (/\ Extracted
   /\ input.family = "unquoted"
   /\ WentThrough("repair")
   /\ ~parsed_content.raised
   /\ parsed_content.v.kind = "dict")
  => \A n \in 1..Len(input.values) :
       input.values[n] \in NumberTokens
       => /\ KeyOf(n) \in DOMAIN parsed_content.v.f
          /\ parsed_content.v.f[KeyOf(n)].kind = "num"

Completed == pc = "completed"

\* the lines of a text
Lines(text) == Split(text, "\n")

\* the line that replaces the cut line of a field:  <key>: "n/a"
Placeholder(key) == Q(key) \o <<":", " ">> \o Q(NA)

\* C22: _attempt_json_completion on a text cut inside a field's value keeps
\* the lines before the cut line in order, replaces the cut line by the
\* placeholder <key>: "n/a", and ends with one closing brace: nothing of the
\* cut value and no later line is in its output, and no comma is left dangling.
C22_StopsAtTruncation ==
  Completed =>
    LET n == Len(input.values)
    IN /\ Len(Lines(stripped)) = n + 3
       /\ \A k \in 1..(n + 1) : Lines(stripped)[k] = Lines(InputText(input))[k]
       /\ Strip(Lines(stripped)[n + 2]) = Placeholder(KeyOf(n + 1))
       /\ Lines(stripped)[n + 3] = <<"}">>

\* C23: in the retry loop of _fallback_structured_response the pause occurs
\* only between consecutive attempts: a loop that makes k attempts pauses k - 1
\* times, so when structured_response has finished, the pauses made are the
\* attempts made less one for each loop that ran.
C23_PauseOnlyBetweenAttempts ==
  (pc = "done" /\ fallbackCalls >= 1) => sleeps = genCalls - fallbackCalls

\* the calls of the session that are extractions
Extractions == {a \in 1..Len(calls) : calls[a].call = "extract"}

\* default_system_instruction as it was when the a-th call of the session began
InstructionBefore(a) == IF a = 1 THEN DefaultInstruction ELSE calls[a - 1].instruction

C25_AnyCutPointRecovers ==
  (Extracted /\ client = "CloudflareAI" /\ input.family = "cut")
    => /\ ~parsed_content.raised
       /\ parsed_content.v.kind = "dict"
       /\ DOMAIN parsed_content.v.f = {KeyOf(n) : n \in 1..(Len(input.values) + 1)}
       /\ parsed_content.v.f[KeyOf(Len(input.values) + 1)] = PyStr(NA)
       /\ \A n \in 1..Len(input.values) :
            parsed_content.v.f[KeyOf(n)] = PyStr(input.values[n])

\* C26: strip_all_markdown_formatting is idempotent: the text stripped in
\* structured_response and stripped again in _extract_and_fix_json is the text
\* stripped once.
C26_StripIsIdempotent ==
  pc = "stripped_twice" => stripped = strip_all_markdown_formatting(InputText(input))

\* C27: in run_cron_job a job is marked "completed" only if its scraped
\* results were posted to the worker (or there was nothing to post): a job
\* whose POST failed is not "completed".
C27_CompletedOnlyIfPosted ==
  \A id \in JobIds : status[id] = "completed" => batches[id] \in {"posted", "nothing to post"}

\* C28: when a broadcast has ended, every connection that was in
\* active_connections, with its peer open, from the beginning of the broadcast
\* to its end has been sent the message, whatever other connections
\* disconnected or failed meanwhile.
C28_BroadcastReachesAllThatStay ==
  broadcast_pc \in {"done", "failed"} => stayed \subseteq delivered

\* the heartbeat threads that are in the loop of send_heartbeat
Running == {th \in Threads : heartbeats[th] = "running"}

\* C29: at most one heartbeat thread is sending pings for the WebSocketApp at
\* any time: the thread of an earlier on_open has stopped when a later on_open
\* starts a new one.
C29_OneHeartbeatThread == Cardinality(Running) <= 1

\* the mapping that CloudflareAIDirect's direct parse hands to
\* _fix_numeric_values
Data == json_loads(StageText(client, InputText(input))).v

\* the schema declares the field a number
DeclaredNumber(key) ==
  schema.hasProps /\ key \in DOMAIN schema.props /\ schema.props[key] = TNumber

\* C30: _fix_numeric_values changes only the top-level fields that the schema
\* declares a number and whose value is a string that converts once "$" and ","
\* are removed; every other value and the key set stay as they were, and
\* without "properties" in the schema the mapping is returned unchanged.
C30_OnlyNumberFieldsChange ==
  (/\ Extracted
   /\ client = "CloudflareAIDirect"
   /\ parsed_content.stages = <<"direct">>
   /\ Data.kind = "dict")
  => /\ ~parsed_content.raised
     /\ parsed_content.v.kind = "dict"
     /\ DOMAIN parsed_content.v.f = DOMAIN Data.f
     /\ ~schema.hasProps => parsed_content.v = Data
     /\ \A key \in DOMAIN Data.f :
          parsed_content.v.f[key] =
            IF DeclaredNumber(key) /\ Data.f[key].kind = "str"
            THEN Coerced(Data.f[key].s) ELSE Data.f[key]

\* C30 witness: salary_min "1" at the top level has become the number 1.0,
\* the one inside the nested object is still the string
C30_Witness ==
  /\ Extracted
  /\ client = "CloudflareAIDirect"
  /\ schema = JobSchema
  /\ InputText(input) = NestedText
  /\ ~parsed_content.raised
  /\ parsed_content.v.f[SalaryMin] = PyNum(TRUE, 1, 0)
  /\ parsed_content.v.f[KeyOf(1)] = PyDict(SalaryMin :> PyStr(<<"1">>))

====
